---- MODULE Spec2Model ----
(***************************************************************************)
(* Bonjour GCS discovery (MAVProxy/modules/mavproxy_discover.py).          *)
(*                                                                         *)
(* Program state: the host's event table mpstate.select_extra, the host's  *)
(* outbound list mpstate.mav_outputs, the module's registry connected_GCS  *)
(* and its browse_sdRef.  The discovery library is represented by the set  *)
(* of service references that still have a reply outstanding.  One action  *)
(* per handler: __init__, browse_callback, resolve_callback and            *)
(* query_record_callback; each runs to completion (single-threaded host    *)
(* loop).  chains and lastEvent are history variables: they record what    *)
(* the handlers did and are never read by them.                            *)
(***************************************************************************)
EXTENDS Integers, Sequences, FiniteSets, TLC

VARIABLES
    module,         \* "init" before BonjourModule(mpstate), then "loaded" or "failed"
    mocked,         \* TRUE when fileno() is fixed by the doctest's doubles
    browse_sdRef,   \* self.browse_sdRef
    select_extra,   \* mpstate.select_extra : fileno -> (handler, sdRef)
    connected_GCS,  \* self.connected_GCS : list of (fullname, port)
    mav_outputs,    \* mpstate.mav_outputs : list of outbound streams
    outstanding,    \* library: service references that still owe a callback
    printed,        \* lines printed by the last handler
    chains,         \* history: per chain instance, its events, its table counts, the
                    \* name Browse reported and, while the address query is in
                    \* flight, the host target and port Resolve reported
    lastEvent       \* history: the last handler invocation, its inputs and outcome

vars == <<module, mocked, browse_sdRef, select_extra, connected_GCS, mav_outputs,
          outstanding, printed, chains, lastEvent>>

---------------------------------------------------------------------------
\* Bounds of the model.
MaxChains == 2
\* One descriptor for the browse, one per chain, and one spare: a query
\* descriptor is allocated while the resolve descriptor is still open.
MaxFd == MaxChains + 2
FDs == 1..MaxFd

ServiceNames == {"MAVLink", "GCS2"}
HostTargets == {"mavlink.local"}
Ports == {14550, 14551}
\* Raw A-record payloads: one well-formed (4 bytes), one malformed.
Rdatas == {<<192, 168, 1, 50>>, <<10, 0, 0>>}

\* Program constants.
BAUD == 115200
kDNSServiceErr_NoError == 0
kDNSServiceErr_Unknown == 0 - 65537
kDNSServiceFlagsAdd == 2
ErrorCodes == {kDNSServiceErr_NoError, kDNSServiceErr_Unknown}
\* flags: 0 = removal, 1 = MoreComing without Add (removal), 2 = Add
Flags == {0, 1, 2}
\* fileno() of the doctest's doubles
BrowseFilenoDouble == 1
ResolveFilenoDouble == 2

---------------------------------------------------------------------------
\* Pure helpers.

Digit == <<"0", "1", "2", "3", "4", "5", "6", "7", "8", "9">>

\* '%s' / '%d' of a non-negative integer
RECURSIVE Dec(_)
Dec(n) == IF n < 10 THEN Digit[n + 1] ELSE Dec(n \div 10) \o Digit[(n % 10) + 1]

\* A flag test that always succeeds.
HasFlag_always(flags, bit) == TRUE

\* flags & bit, for bit a power of two
HasFlag(flags, bit) == (flags \div bit) % 2 = 1

\* An inet_ntoa that reads the bytes in the reverse order.
inet_ntoa_reversed(rdata) ==
    IF Len(rdata) = 4
    THEN [raised |-> "none",
          value |-> Dec(rdata[4]) \o "." \o Dec(rdata[3]) \o "." \o
                    Dec(rdata[2]) \o "." \o Dec(rdata[1])]
    ELSE [raised |-> "socket.error", value |-> ""]

\* socket.inet_ntoa: 4 packed bytes to dotted decimal, socket.error otherwise
inet_ntoa(rdata) ==
    IF Len(rdata) = 4
    THEN [raised |-> "none",
          value |-> Dec(rdata[1]) \o "." \o Dec(rdata[2]) \o "." \o
                    Dec(rdata[3]) \o "." \o Dec(rdata[4])]
    ELSE [raised |-> "socket.error", value |-> ""]

\* '%s:%s' % (ip_address, port)
FormatAddress(ip_address, port) == ip_address \o ":" \o Dec(port)

\* 'Connected to %s at %s:%d' % (serviceName, ip_address, port)
FormatConnected(serviceName, ip_address, port) ==
    "Connected to " \o serviceName \o " at " \o ip_address \o ":" \o Dec(port)

---------------------------------------------------------------------------
\* Service references of the discovery library.  kind and the bound
\* arguments are what functools.partial and the library keep for the
\* callback; chain is the history tag of the chain instance (0: the browse).

SdRef(kind, fd, chain, serviceName, fullname, port) ==
    [kind |-> kind, fd |-> fd, chain |-> chain,
     serviceName |-> serviceName, fullname |-> fullname, port |-> port]

DNSServiceBrowse(fd) == SdRef("browse", fd, 0, "", "", 0)

\* resolve_func = partial(resolve_callback, serviceName=serv_name)
DNSServiceResolve(serv_name, fd, chain) == SdRef("resolve", fd, chain, serv_name, "", 0)

\* query_func = partial(query_record_callback, port=port, serviceName=serv_name)
DNSServiceQueryRecord(serv_name, host, port, fd, chain) ==
    SdRef("query", fd, chain, serv_name, host, port)

\* The descriptor fileno() returns for a new reference: the lowest
\* descriptor that is not open (the operating system's rule for a new
\* socket).  Open are the descriptors in the table (the table holds the
\* reference) and that of the reference being processed.  Under the
\* doctest's doubles the browse and resolve references return fixed values.
Lowest(S) == {f \in S : \A g \in S : f <= g}

fileno(kind, table, open) ==
    IF mocked /\ kind = "browse" THEN {BrowseFilenoDouble}
    ELSE IF mocked /\ kind = "resolve" THEN {ResolveFilenoDouble}
    ELSE Lowest(FDs \ (DOMAIN table \cup open))

---------------------------------------------------------------------------
\* Service descriptor lifecycle.

\* A deregistration that removes every entry of the reference's service name.
deregister_service_descriptor_name(table, serviceDescriptor) ==
    [raised |-> IF serviceDescriptor.fd \in DOMAIN table THEN "none" ELSE "KeyError",
     table |-> [f \in {g \in DOMAIN table :
                          table[g].sd.serviceName # serviceDescriptor.serviceName} |->
                    table[f]]]

\* del self.mpstate.select_extra[serviceDescriptor.fileno()]
deregister_service_descriptor(table, serviceDescriptor) ==
    IF serviceDescriptor.fd \in DOMAIN table
    THEN [raised |-> "none",
          table |-> [f \in DOMAIN table \ {serviceDescriptor.fd} |-> table[f]]]
    ELSE [raised |-> "KeyError", table |-> table]

\* self.mpstate.select_extra[serviceDescriptor.fileno()] = (handler, serviceDescriptor)
register_service_descriptor(table, serviceDescriptor, handler) ==
    [f \in DOMAIN table \cup {serviceDescriptor.fd} |->
        IF f = serviceDescriptor.fd
        THEN [handler |-> handler, sd |-> serviceDescriptor]
        ELSE table[f]]

\* A resolve_service that skips a name that already has a query registered.
resolve_service_dedup(table, serv_name, fd, chain) ==
    IF \E f \in DOMAIN table : table[f].sd.serviceName = serv_name
    THEN table
    ELSE register_service_descriptor(table, DNSServiceResolve(serv_name, fd, chain),
                                     "DNSServiceProcessResult")

resolve_service(table, serv_name, fd, chain) ==
    register_service_descriptor(table, DNSServiceResolve(serv_name, fd, chain),
                                "DNSServiceProcessResult")

query_host(table, serv_name, host, port, fd, chain) ==
    register_service_descriptor(table, DNSServiceQueryRecord(serv_name, host, port, fd, chain),
                                "DNSServiceProcessResult")

---------------------------------------------------------------------------
\* Connection registry and establisher.

InSeq(x, s) == \E i \in DOMAIN s : s[i] = x

\* A check that never finds an existing connection.
should_connect_to_GCS_always(registry, fullname, port) == TRUE

\* A check that compares the name alone.
should_connect_to_GCS_name(registry, fullname, port) ==
    ~ \E i \in DOMAIN registry : registry[i][1] = fullname

should_connect_to_GCS(registry, fullname, port) == ~ InSeq(<<fullname, port>>, registry)

\* A registration that assigns the list instead of appending to it.
register_connection_to_GCS_assign(registry, fullname, port) == <<<<fullname, port>>>>

register_connection_to_GCS(registry, fullname, port) ==
    Append(registry, <<fullname, port>>)

\* mavutil.mavlink_connection(address, baud=self.BAUD, input=False)
mavlink_connection(address) == [address |-> address, baud |-> BAUD, input |-> FALSE]

\* A connect_to_GCS that records the endpoint before it opens the stream.
connect_to_GCS_recorded(outputs, registry, fullname, ip_address, port, transportOk) ==
    IF transportOk
    THEN [raised |-> "none",
          mav_outputs |-> Append(outputs, mavlink_connection(FormatAddress(ip_address, port))),
          connected_GCS |-> register_connection_to_GCS(registry, fullname, port)]
    ELSE [raised |-> "transport", mav_outputs |-> outputs,
          connected_GCS |-> register_connection_to_GCS(registry, fullname, port)]

\* transportOk = FALSE: mavlink_connection raises, nothing is appended
connect_to_GCS(outputs, registry, fullname, ip_address, port, transportOk) ==
    IF transportOk
    THEN [raised |-> "none",
          mav_outputs |-> Append(outputs, mavlink_connection(FormatAddress(ip_address, port))),
          connected_GCS |-> register_connection_to_GCS(registry, fullname, port)]
    ELSE [raised |-> "transport", mav_outputs |-> outputs, connected_GCS |-> registry]

---------------------------------------------------------------------------
\* History records.  lastEvent holds the arguments the handler read.

NoEvent ==
    [cb |-> "none", sd |-> DNSServiceBrowse(0), errorCode |-> 0, flags |-> 0,
     serviceName |-> "", rdata |-> <<>>, raised |-> "none"]

ChainDo(c, events, add, rem) ==
    [chains EXCEPT ![c] = [@ EXCEPT !.trace = @ \o events,
                                    !.added = @ + add,
                                    !.removed = @ + rem]]

\* The host loop calls handler(sd) for an entry of the table; the library
\* then delivers a reply to the reference if one is outstanding.
Dispatchable(fd) ==
    /\ fd \in DOMAIN select_extra
    /\ select_extra[fd].sd.fd = fd
    /\ select_extra[fd].sd \in outstanding

---------------------------------------------------------------------------
Init ==
    /\ module = "init"
    /\ mocked = FALSE
    /\ browse_sdRef = DNSServiceBrowse(0)
    /\ select_extra = <<>>
    /\ connected_GCS = <<>>
    /\ mav_outputs = <<>>
    /\ outstanding = {}
    /\ printed = <<>>
    /\ chains = <<>>
    /\ lastEvent = NoEvent

\* select_extra of the doctest: fileno() of the doubles is fixed
InitDoctest ==
    /\ module = "init"
    /\ mocked = TRUE
    /\ browse_sdRef = DNSServiceBrowse(0)
    /\ select_extra = <<>>
    /\ connected_GCS = <<>>
    /\ mav_outputs = <<>>
    /\ outstanding = {}
    /\ printed = <<>>
    /\ chains = <<>>
    /\ lastEvent = NoEvent

\* A constructor that starts the browse and does not register it.
init_unregistered(browseOk) ==
    /\ module = "init"
    /\ connected_GCS' = <<>>
    /\ IF browseOk
       THEN \E fd \in fileno("browse", select_extra, {}) :
            /\ browse_sdRef' = DNSServiceBrowse(fd)
            /\ outstanding' = {DNSServiceBrowse(fd)}
            /\ printed' = <<"Module discover loaded">>
            /\ module' = "loaded"
            /\ lastEvent' = [NoEvent EXCEPT !.cb = "init"]
            /\ UNCHANGED select_extra
       ELSE /\ module' = "failed"
            /\ lastEvent' = [NoEvent EXCEPT !.cb = "init", !.raised = "BonjourError"]
            /\ UNCHANGED <<browse_sdRef, select_extra, outstanding, printed>>
    /\ UNCHANGED <<mocked, mav_outputs, chains>>

\* A constructor that catches the error of the Browse request and carries on.
init_swallowing(browseOk) ==
    /\ module = "init"
    /\ connected_GCS' = <<>>
    /\ \E fd \in fileno("browse", select_extra, {}) :
            /\ browse_sdRef' = DNSServiceBrowse(fd)
            /\ select_extra' = register_service_descriptor(select_extra, DNSServiceBrowse(fd),
                                                           "DNSServiceProcessResult")
            /\ outstanding' = IF browseOk THEN {DNSServiceBrowse(fd)} ELSE {}
    /\ printed' = <<"Module discover loaded">>
    /\ module' = "loaded"
    /\ lastEvent' = [NoEvent EXCEPT !.cb = "init",
                                    !.raised = IF browseOk THEN "none" ELSE "BonjourError"]
    /\ UNCHANGED <<mocked, mav_outputs, chains>>

\* BonjourModule.__init__ with discover_services; browseOk = FALSE: the
\* Browse request raises and the constructor does not return a module.
init(browseOk) ==
    /\ module = "init"
    /\ connected_GCS' = <<>>
    /\ IF browseOk
       THEN \E fd \in fileno("browse", select_extra, {}) :
            /\ browse_sdRef' = DNSServiceBrowse(fd)
            /\ select_extra' = register_service_descriptor(select_extra, DNSServiceBrowse(fd),
                                                           "DNSServiceProcessResult")
            /\ outstanding' = {DNSServiceBrowse(fd)}
            /\ printed' = <<"Module discover loaded">>
            /\ module' = "loaded"
            /\ lastEvent' = [NoEvent EXCEPT !.cb = "init"]
       ELSE /\ module' = "failed"
            /\ lastEvent' = [NoEvent EXCEPT !.cb = "init", !.raised = "BonjourError"]
            /\ UNCHANGED <<browse_sdRef, select_extra, outstanding, printed>>
    /\ UNCHANGED <<mocked, mav_outputs, chains>>

browse_callback(errorCode, flags, serviceName) ==
    /\ module = "loaded"
    /\ Dispatchable(browse_sdRef.fd)
    /\ select_extra[browse_sdRef.fd].sd = browse_sdRef
    /\ lastEvent' = IF errorCode # kDNSServiceErr_NoError
                    THEN [NoEvent EXCEPT !.cb = "browse", !.sd = browse_sdRef,
                                         !.errorCode = errorCode]
                    ELSE [NoEvent EXCEPT !.cb = "browse", !.sd = browse_sdRef,
                                         !.errorCode = errorCode, !.flags = flags,
                                         !.serviceName = serviceName]
    /\ IF errorCode # kDNSServiceErr_NoError
       THEN /\ printed' = <<>>
            /\ UNCHANGED <<select_extra, outstanding, chains>>
       ELSE IF ~ HasFlag(flags, kDNSServiceFlagsAdd)
       THEN /\ printed' = <<"Service removed">>
            /\ UNCHANGED <<select_extra, outstanding, chains>>
       ELSE \E newfd \in fileno("resolve", select_extra, {browse_sdRef.fd}) :
            /\ Len(chains) < MaxChains
            /\ select_extra' = resolve_service(select_extra, serviceName, newfd, Len(chains) + 1)
            /\ outstanding' = outstanding \cup
                                {DNSServiceResolve(serviceName, newfd, Len(chains) + 1)}
            /\ chains' = Append(chains, [trace |-> <<"browse_add", "resolve_start">>,
                                         added |-> 1, removed |-> 0,
                                         name |-> serviceName,
                                         hosttarget |-> "", port |-> 0])
            /\ printed' = <<>>
    /\ UNCHANGED <<module, mocked, browse_sdRef, connected_GCS, mav_outputs>>

\* A resolve_callback that deregisters and starts no address query.
resolve_success_noquery(table, sdRef, hosttarget, port, newfd) ==
    LET d == deregister_service_descriptor(table, sdRef) IN
    [raised |-> d.raised, table |-> d.table,
     events |-> <<"resolve_ok">>, add |-> 0, rem |-> 1]

\* A resolve_callback that deregisters the browse reference.
resolve_success_browse(table, sdRef, hosttarget, port, newfd) ==
    LET d == deregister_service_descriptor(table, browse_sdRef) IN
    [raised |-> d.raised,
     table |-> query_host(d.table, sdRef.serviceName, hosttarget, port, newfd, sdRef.chain),
     events |-> <<"resolve_ok", "query_start">>, add |-> 1, rem |-> 1]

\* A resolve_callback that deregisters its reference twice.
resolve_success_twice(table, sdRef, hosttarget, port, newfd) ==
    LET d == deregister_service_descriptor(table, sdRef)
        e == deregister_service_descriptor(d.table, sdRef)
    IN [raised |-> e.raised, table |-> d.table,
        events |-> <<"resolve_ok", "deregister_raise">>, add |-> 0, rem |-> 1]

\* A resolve_callback that starts the address query and keeps its own entry.
resolve_success_keep(table, sdRef, hosttarget, port, newfd) ==
    [raised |-> "none",
     table |-> query_host(table, sdRef.serviceName, hosttarget, port, newfd, sdRef.chain),
     events |-> <<"resolve_ok", "query_start">>, add |-> 1, rem |-> 0]

\* resolve_callback with errorCode == kDNSServiceErr_NoError: deregister,
\* then query_host.
resolve_success(table, sdRef, hosttarget, port, newfd) ==
    LET d == deregister_service_descriptor(table, sdRef) IN
    IF d.raised # "none"
    THEN [raised |-> d.raised, table |-> table,
          events |-> <<"resolve_ok", "deregister_raise">>, add |-> 0, rem |-> 0]
    ELSE [raised |-> "none",
          table |-> query_host(d.table, sdRef.serviceName, hosttarget, port,
                               newfd, sdRef.chain),
          events |-> <<"resolve_ok", "query_start">>, add |-> 1, rem |-> 1]

\* A resolve_callback that never tests errorCode.
resolve_result_unchecked(table, sdRef, errorCode, hosttarget, port, newfd) ==
    resolve_success(table, sdRef, hosttarget, port, newfd)

\* The result of resolve_callback: with an error code it does nothing.
resolve_result(table, sdRef, errorCode, hosttarget, port, newfd) ==
    IF errorCode = kDNSServiceErr_NoError
    THEN resolve_success(table, sdRef, hosttarget, port, newfd)
    ELSE [raised |-> "none", table |-> table, events |-> <<"resolve_err">>,
          add |-> 0, rem |-> 0]

resolve_callback(fd, errorCode, hosttarget, port) ==
    /\ module = "loaded"
    /\ Dispatchable(fd)
    /\ select_extra[fd].sd.kind = "resolve"
    /\ \E newfd \in fileno("query", select_extra, {fd}) :
       LET sdRef == select_extra[fd].sd
           r == resolve_result(select_extra, sdRef, errorCode, hosttarget, port, newfd)
           started == "query_start" \in {r.events[i] : i \in DOMAIN r.events}
       IN /\ select_extra' = r.table
          /\ outstanding' = (outstanding \ {sdRef}) \cup
                IF started
                THEN {DNSServiceQueryRecord(sdRef.serviceName, hosttarget, port,
                                            newfd, sdRef.chain)}
                ELSE {}
          /\ chains' = [ChainDo(sdRef.chain, r.events, r.add, r.rem)
                            EXCEPT ![sdRef.chain].hosttarget = hosttarget,
                                   ![sdRef.chain].port = port]
          /\ lastEvent' = [NoEvent EXCEPT !.cb = "resolve", !.sd = sdRef,
                                          !.errorCode = errorCode,
                                          !.raised = r.raised]
    /\ printed' = <<>>
    /\ UNCHANGED <<module, mocked, browse_sdRef, connected_GCS, mav_outputs>>

\* What a query_record_callback that changes nothing returns.
QuerySame(table, registry, outputs) ==
    [raised |-> "none", table |-> table, connected_GCS |-> registry,
     mav_outputs |-> outputs, printed |-> <<>>, events |-> <<>>, rem |-> 0]

\* query_record_callback with errorCode == kDNSServiceErr_NoError: decode
\* rdata, deregister, then connect unless already connected.  fullname is
\* the name of the record the library reports, the name that was queried;
\* port and serviceName are the bound arguments.
query_record_success(table, registry, outputs, sdRef, rdata, transportOk) ==
    LET same == QuerySame(table, registry, outputs)
        ip == inet_ntoa(rdata)
    IN
    IF ip.raised # "none"
    THEN [same EXCEPT !.raised = ip.raised, !.events = <<"query_ok", "decode_raise">>]
    ELSE LET d == deregister_service_descriptor(table, sdRef) IN
         IF d.raised # "none"
         THEN [same EXCEPT !.raised = d.raised,
                           !.events = <<"query_ok", "deregister_raise">>]
         ELSE IF should_connect_to_GCS(registry, sdRef.fullname, sdRef.port)
         THEN LET c == connect_to_GCS(outputs, registry, sdRef.fullname,
                                      ip.value, sdRef.port, transportOk) IN
              IF c.raised # "none"
              THEN [same EXCEPT !.raised = c.raised, !.table = d.table, !.rem = 1,
                                !.connected_GCS = c.connected_GCS,
                                !.mav_outputs = c.mav_outputs,
                                !.events = <<"query_ok", "connect_raise">>]
              ELSE [same EXCEPT !.table = d.table, !.rem = 1,
                                !.connected_GCS = c.connected_GCS,
                                !.mav_outputs = c.mav_outputs,
                                !.printed = <<FormatConnected(sdRef.serviceName,
                                                              ip.value, sdRef.port)>>,
                                !.events = <<"query_ok", "connect">>]
         ELSE [same EXCEPT !.table = d.table, !.rem = 1,
                           !.events = <<"query_ok", "duplicate">>]

\* A query_record_callback that never tests errorCode.
query_record_result_unchecked(table, registry, outputs, sdRef, errorCode, rdata, ok) ==
    query_record_success(table, registry, outputs, sdRef, rdata, ok)

\* The result of query_record_callback: with an error code it does nothing.
query_record_result(table, registry, outputs, sdRef, errorCode, rdata, transportOk) ==
    IF errorCode = kDNSServiceErr_NoError
    THEN query_record_success(table, registry, outputs, sdRef, rdata, transportOk)
    ELSE [QuerySame(table, registry, outputs) EXCEPT !.events = <<"query_err">>]

query_record_callback(fd, errorCode, rdata, transportOk) ==
    /\ module = "loaded"
    /\ Dispatchable(fd)
    /\ select_extra[fd].sd.kind = "query"
    /\ LET sdRef == select_extra[fd].sd
           r == query_record_result(select_extra, connected_GCS, mav_outputs,
                                    sdRef, errorCode, rdata, transportOk)
       IN /\ select_extra' = r.table
          /\ connected_GCS' = r.connected_GCS
          /\ mav_outputs' = r.mav_outputs
          /\ printed' = r.printed
          /\ outstanding' = outstanding \ {sdRef}
          /\ chains' = [ChainDo(sdRef.chain, r.events, 0, r.rem)
                            EXCEPT ![sdRef.chain].hosttarget = "",
                                   ![sdRef.chain].port = 0]
          /\ lastEvent' = [NoEvent EXCEPT !.cb = "query", !.sd = sdRef,
                                          !.errorCode = errorCode,
                                          !.rdata = IF errorCode = kDNSServiceErr_NoError
                                                    THEN rdata ELSE <<>>,
                                          !.raised = r.raised]
    /\ UNCHANGED <<module, mocked, browse_sdRef>>

\* The replies the library delivers.  With an error code the handlers read
\* no other argument, so one reply stands for each error code.
BrowseReplies ==
    [errorCode : {kDNSServiceErr_NoError}, flags : Flags, serviceName : ServiceNames]
    \cup [errorCode : ErrorCodes \ {kDNSServiceErr_NoError}, flags : {0},
          serviceName : {""}]

ResolveReplies ==
    [errorCode : {kDNSServiceErr_NoError}, hosttarget : HostTargets, port : Ports]
    \cup [errorCode : ErrorCodes \ {kDNSServiceErr_NoError}, hosttarget : {""},
          port : {0}]

QueryReplies ==
    [errorCode : {kDNSServiceErr_NoError}, rdata : Rdatas]
    \cup [errorCode : ErrorCodes \ {kDNSServiceErr_NoError}, rdata : {<<>>}]

Next ==
    \/ \E browseOk \in BOOLEAN : init(browseOk)
    \/ \E m \in BrowseReplies : browse_callback(m.errorCode, m.flags, m.serviceName)
    \/ \E fd \in DOMAIN select_extra, m \in ResolveReplies :
            resolve_callback(fd, m.errorCode, m.hosttarget, m.port)
    \/ \E fd \in DOMAIN select_extra, m \in QueryReplies, transportOk \in BOOLEAN :
            query_record_callback(fd, m.errorCode, m.rdata, transportOk)

Spec == Init /\ [][Next]_vars

SpecDoctest == InitDoctest /\ [][Next]_vars

\* The library under the assumption that every Resolve and QueryAddress
\* query is answered, with a success code and a well-formed A record, and
\* that the transport opens every stream.  The host loop serves every
\* readable descriptor of the table, so a reply that is due is delivered:
\* while a reply is due, one is delivered.
ResolveSucceeds(fd) ==
    \E m \in ResolveReplies :
        /\ m.errorCode = kDNSServiceErr_NoError
        /\ resolve_callback(fd, m.errorCode, m.hosttarget, m.port)

QuerySucceeds(fd) ==
    \E m \in QueryReplies :
        /\ m.errorCode = kDNSServiceErr_NoError
        /\ Len(m.rdata) = 4
        /\ query_record_callback(fd, m.errorCode, m.rdata, TRUE)

NextAnswered ==
    \/ \E browseOk \in BOOLEAN : init(browseOk)
    \/ \E m \in BrowseReplies : browse_callback(m.errorCode, m.flags, m.serviceName)
    \/ \E fd \in DOMAIN select_extra : ResolveSucceeds(fd)
    \/ \E fd \in DOMAIN select_extra : QuerySucceeds(fd)

SpecAnswered ==
    /\ Init
    /\ [][NextAnswered]_vars
    /\ WF_vars(\E fd \in FDs : ResolveSucceeds(fd))
    /\ WF_vars(\E fd \in FDs : QuerySucceeds(fd))

---------------------------------------------------------------------------
\* Vocabulary of the properties.  The arguments of the last handler are
\* read from lastEvent; the flag, the address and the port are spelled out
\* here and not computed with the operators of the model.

Last(s) == s[Len(s)]
Range(s) == {s[i] : i \in DOMAIN s}
Count(x, s) == Cardinality({i \in DOMAIN s : s[i] = x})

AddFlags == {2, 3}
RemovalFlags == {0, 1}

IsError(e) == e.cb \in {"browse", "resolve", "query"} /\ e.errorCode # 0
IsSuccess(e, cb) == e.cb = cb /\ e.errorCode = 0
EventPair(e) == <<e.sd.fullname, e.sd.port>>

DottedAddress(rdata) == IF rdata = <<192, 168, 1, 50>> THEN "192.168.1.50" ELSE "?"
PortText(port) == IF port = 14550 THEN "14550" ELSE IF port = 14551 THEN "14551" ELSE "?"

ChainFinished(c) == Last(chains[c].trace) \notin {"resolve_start", "query_start"}
ChainEntries(c) == {f \in DOMAIN select_extra : select_extra[f].sd.chain = c}

\* C1: in every reachable state the connection registry holds at most one
\* Connection Record for any (endpoint-name, port) pair.
C1_AtMostOneRecordPerPair ==
    \A i, j \in DOMAIN connected_GCS : connected_GCS[i] = connected_GCS[j] => i = j

\* A second chain's address query succeeded for a pair that is already a record.
C1_Witness ==
    /\ IsSuccess(lastEvent, "query")
    /\ Last(chains[lastEvent.sd.chain].trace) = "duplicate"
    /\ EventPair(lastEvent) \in Range(connected_GCS)

C3_FinishedChainBalanced ==
    \A c \in DOMAIN chains :
        ChainFinished(c) =>
            /\ chains[c].added = chains[c].removed
            /\ ChainEntries(c) = {}
            /\ "deregister_raise" \notin Range(chains[c].trace)

\* C4: a Resolve or QueryAddress callback invoked with a non-success error
\* code has removed the entry of that Query from the Event Registration
\* Table when it returns.
C4_ErrorDeregisters ==
    lastEvent.cb \in {"resolve", "query"} /\ lastEvent.errorCode # 0 =>
        ~ \E f \in DOMAIN select_extra : select_extra[f].sd = lastEvent.sd

\* C5: a callback that receives a non-success error code starts no
\* next-stage query, creates no Connection Record and no outbound stream,
\* prints nothing and returns without raising.
C5_ErrorTerminatesSilently ==
    [][IsError(lastEvent') =>
            /\ DOMAIN select_extra' \subseteq DOMAIN select_extra
            /\ \A f \in DOMAIN select_extra' : select_extra'[f] = select_extra[f]
            /\ outstanding' \subseteq outstanding
            /\ Len(chains') = Len(chains)
            /\ \A c \in DOMAIN chains : chains'[c].added = chains[c].added
            /\ connected_GCS' = connected_GCS
            /\ mav_outputs' = mav_outputs
            /\ printed' = <<>>
            /\ lastEvent'.raised = "none"]_vars

\* Each of the three callbacks has received an error code: the browse just
\* now, a resolve and an address query earlier.
C5_Witness ==
    /\ lastEvent.cb = "browse" /\ lastEvent.errorCode # 0
    /\ \E c \in DOMAIN chains : Last(chains[c].trace) = "resolve_err"
    /\ \E c \in DOMAIN chains : Last(chains[c].trace) = "query_err"

\* C6: a Resolve query is started only by a Browse callback that reports an
\* error-free add, for the service name it reports; a QueryAddress query is
\* started only by a successful Resolve callback of the same chain; a record
\* or a stream is created only by a successful QueryAddress callback of a
\* chain whose address query was outstanding.  The events of every chain
\* follow that order.
C6_LegalTraces ==
    LET start == <<"browse_add", "resolve_start">>
        query == start \o <<"resolve_ok", "query_start">>
    IN {start, start \o <<"resolve_err">>, query, query \o <<"query_err">>,
        query \o <<"query_ok", "connect">>, query \o <<"query_ok", "duplicate">>,
        query \o <<"query_ok", "connect_raise">>, query \o <<"query_ok", "decode_raise">>}

C6_StagesInOrder ==
    /\ [](\A c \in DOMAIN chains : chains[c].trace \in C6_LegalTraces)
    /\ [][/\ \A f \in DOMAIN select_extra' :
               (f \notin DOMAIN select_extra \/ select_extra[f] # select_extra'[f]) =>
                   LET sd == select_extra'[f].sd IN
                   /\ sd.kind = "browse" => lastEvent'.cb = "init"
                   /\ sd.kind = "resolve" =>
                        /\ IsSuccess(lastEvent', "browse")
                        /\ lastEvent'.flags \in AddFlags
                        /\ lastEvent'.serviceName = sd.serviceName
                        /\ sd.chain = Len(chains) + 1
                   /\ sd.kind = "query" =>
                        /\ IsSuccess(lastEvent', "resolve")
                        /\ lastEvent'.sd.kind = "resolve"
                        /\ lastEvent'.sd \in outstanding
                        /\ lastEvent'.sd.chain = sd.chain
                        /\ Last(chains[sd.chain].trace) = "resolve_start"
          /\ (connected_GCS' # connected_GCS \/ mav_outputs' # mav_outputs) =>
                /\ IsSuccess(lastEvent', "query")
                /\ lastEvent'.sd.kind = "query"
                /\ lastEvent'.sd \in outstanding
                /\ Last(chains[lastEvent'.sd.chain].trace) = "query_start"]_vars

\* A chain went through all the stages and connected.
C6_Witness ==
    \E c \in DOMAIN chains :
        chains[c].trace = <<"browse_add", "resolve_start", "resolve_ok", "query_start",
                            "query_ok", "connect">>

\* The address-query success of a chain for an endpoint that is not yet
\* connected, with a payload that decodes and a stream that opens.
C7_ConnectStep ==
    /\ IsSuccess(lastEvent', "query")
    /\ Len(lastEvent'.rdata) = 4
    /\ EventPair(lastEvent') \notin Range(connected_GCS)
    /\ lastEvent'.raised = "none"

\* C7 as stated: the endpoint name passed to Connect and stored in the
\* Connection Record is the service name Browse reported for the chain, and
\* the port is the one Resolve produced.
C7_RecordHoldsServiceName ==
    [][C7_ConnectStep =>
            LET c == lastEvent'.sd.chain IN
            /\ Len(connected_GCS') = Len(connected_GCS) + 1
            /\ Last(connected_GCS') = <<chains[c].name, chains[c].port>>]_vars

\* C7 as amended: exactly one Connect call is made, with the full name the
\* QueryAddress callback reports (the host target Resolve produced, which was
\* queried), the decoded address and the port Resolve produced; the record is
\* (full name, port), the stream is opened to address:port, output only, at
\* 115200, and the service name Browse reported appears in the confirmation
\* line alone.
C7_ConnectArguments ==
    [][C7_ConnectStep =>
            LET c == lastEvent'.sd.chain
                a == DottedAddress(lastEvent'.rdata) \o ":" \o PortText(chains[c].port)
            IN
            /\ Len(connected_GCS') = Len(connected_GCS) + 1
            /\ Last(connected_GCS') = <<chains[c].hosttarget, chains[c].port>>
            /\ Len(mav_outputs') = Len(mav_outputs) + 1
            /\ Last(mav_outputs') = [address |-> a, baud |-> 115200, input |-> FALSE]
            /\ printed' = <<"Connected to " \o chains[c].name \o " at " \o a>>]_vars

\* Scenario A with port 14550.
C7_Witness ==
    /\ IsSuccess(lastEvent, "query")
    /\ Last(chains[lastEvent.sd.chain].trace) = "connect"
    /\ printed = <<"Connected to MAVLink at 192.168.1.50:14550">>
    /\ Last(connected_GCS) = <<"mavlink.local", 14550>>

\* C8: a Browse callback with a success code whose flags indicate removal
\* leaves the Event Registration Table, the registry and the outbound list
\* unchanged and starts no Resolve query; it prints the diagnostic line.
C8_RemovalChangesNothing ==
    [][IsSuccess(lastEvent', "browse") /\ lastEvent'.flags \in RemovalFlags
       =>
            /\ select_extra' = select_extra
            /\ connected_GCS' = connected_GCS
            /\ mav_outputs' = mav_outputs
            /\ outstanding' = outstanding
            /\ chains' = chains
            /\ printed' = <<"Service removed">>]_vars

\* The removal of a service that was added and is connected.
C8_Witness ==
    /\ IsSuccess(lastEvent, "browse")
    /\ lastEvent.flags \in RemovalFlags
    /\ \E c \in DOMAIN chains :
            /\ chains[c].name = lastEvent.serviceName
            /\ Last(chains[c].trace) = "connect"
    /\ connected_GCS # <<>>

C10_RegistryOnlyGrows ==
    [][\A r \in Range(connected_GCS) : r \in Range(connected_GCS')]_vars

\* Two records exist and an error code has just been delivered.
C10_Witness ==
    /\ Len(connected_GCS) = 2
    /\ IsError(lastEvent)

\* C11: when every registered Resolve and QueryAddress query is answered
\* with success and the transport does not fail, every error-free Browse add
\* event is eventually followed by the end of its chain in a successful
\* QueryAddress callback, and the callback that ends it leaves the
\* (fullName, port) pair resolved for the chain in the registry.  Chains are
\* never removed from the history and a chain that has ended stays ended, so
\* "again and again every chain started so far has ended" states it for
\* every chain.
C11_Connected(c) == c \in DOMAIN chains /\ Last(chains[c].trace) \in {"connect", "duplicate"}

C12_StartRegistersBrowse ==
    (lastEvent.cb = "init" /\ lastEvent.raised = "none") =>
        /\ module = "loaded"
        /\ browse_sdRef.kind = "browse"
        /\ DOMAIN select_extra = {browse_sdRef.fd}
        /\ select_extra[browse_sdRef.fd] =
                [handler |-> "DNSServiceProcessResult", sd |-> browse_sdRef]
        /\ connected_GCS = <<>>
        /\ printed = <<"Module discover loaded">>

\* The module has just been constructed.
C12_Witness ==
    /\ lastEvent.cb = "init"
    /\ lastEvent.raised = "none"
    /\ module = "loaded"

\* C13: when the Browse request fails the module does not come up: nothing
\* is in the Event Registration Table, no query is outstanding and no
\* callback of the core runs afterwards.
C13_BrowseFailureIsFatal ==
    /\ (lastEvent.cb = "init" /\ lastEvent.raised # "none") => module = "failed"
    /\ module = "failed" =>
            /\ lastEvent.cb = "init"
            /\ DOMAIN select_extra = {}
            /\ outstanding = {}
            /\ chains = <<>>
            /\ connected_GCS = <<>>
            /\ mav_outputs = <<>>
            /\ ~ ENABLED Next

\* The Browse request has failed.
C13_Witness ==
    /\ module = "failed"
    /\ lastEvent.raised = "BonjourError"

\* C14: in every reachable state a chain owns at most one entry of the Event
\* Registration Table; the resolve_callback that succeeds removes the
\* Resolve Query's entry and registers the chain's QueryAddress Query in the
\* same invocation.
C14_ChainOwnsAtMostOneEntry ==
    /\ [](\A c \in DOMAIN chains : Cardinality(ChainEntries(c)) <= 1)
    /\ [][IsSuccess(lastEvent', "resolve") =>
            LET sd == lastEvent'.sd IN
            /\ sd.kind = "resolve"
            /\ sd.fd \in DOMAIN select_extra
            /\ select_extra[sd.fd].sd = sd
            /\ \A f \in DOMAIN select_extra' : select_extra'[f].sd # sd
            /\ \E f \in DOMAIN select_extra' \ DOMAIN select_extra :
                    /\ select_extra'[f].sd.kind = "query"
                    /\ select_extra'[f].sd.chain = sd.chain
                    /\ \A g \in DOMAIN select_extra' :
                            select_extra'[g].sd.chain = sd.chain => g = f]_vars

\* Two chains have each replaced their Resolve entry by a QueryAddress entry.
C14_Witness ==
    /\ IsSuccess(lastEvent, "resolve")
    /\ Len(chains) = 2
    /\ \A c \in DOMAIN chains :
            \E f \in DOMAIN select_extra :
                /\ ChainEntries(c) = {f}
                /\ select_extra[f].sd.kind = "query"

\* C15: after every query_record_callback with a success code the Query's
\* entry is gone from the Event Registration Table, whether the endpoint is
\* new, a duplicate, or the payload cannot be decoded.
C15_SuccessRemovesEntryFirst ==
    IsSuccess(lastEvent, "query") =>
        \A f \in DOMAIN select_extra : select_extra[f].sd # lastEvent.sd

C17_AddStartsOneResolve ==
    [][(IsSuccess(lastEvent', "browse") /\ lastEvent'.flags \in AddFlags) =>
        /\ Len(chains') = Len(chains) + 1
        /\ \A c \in DOMAIN chains : chains'[c] = chains[c]
        /\ Last(chains').name = lastEvent'.serviceName
        /\ Last(chains').trace = <<"browse_add", "resolve_start">>
        /\ \E f \in DOMAIN select_extra' \ DOMAIN select_extra :
                /\ DOMAIN select_extra' = DOMAIN select_extra \cup {f}
                /\ \A g \in DOMAIN select_extra : select_extra'[g] = select_extra[g]
                /\ select_extra'[f].handler = "DNSServiceProcessResult"
                /\ select_extra'[f].sd.kind = "resolve"
                /\ select_extra'[f].sd.fd = f
                /\ select_extra'[f].sd.chain = Len(chains')
                /\ select_extra'[f].sd.serviceName = lastEvent'.serviceName
                /\ outstanding' = outstanding \cup {select_extra'[f].sd}
                /\ select_extra'[f].sd \notin outstanding
        /\ connected_GCS' = connected_GCS
        /\ mav_outputs' = mav_outputs]_vars

\* An add event for a name that already has a Connection Record.
C17_Witness ==
    /\ IsSuccess(lastEvent, "browse")
    /\ lastEvent.flags \in AddFlags
    /\ Len(chains) = 2
    /\ chains[1].name = lastEvent.serviceName
    /\ Last(chains[1].trace) = "connect"
    /\ Last(chains[2].trace) = "resolve_start"

\* An add event for a name whose earlier chain is still in flight.
C17_WitnessInFlight ==
    /\ IsSuccess(lastEvent, "browse")
    /\ lastEvent.flags \in AddFlags
    /\ Len(chains) = 2
    /\ chains[1].name = lastEvent.serviceName
    /\ Last(chains[1].trace) = "query_start"

\* C18: when the transport fails to open the stream the error leaves
\* query_record_callback, and the registry and the outbound list are as they
\* were; the outbound list always holds as many streams as the registry
\* holds records; and an address-query success with a decodable payload for
\* a pair that is not a record attempts the connection, whatever failed
\* before.
C18_TransportFailureChangesNothing ==
    /\ [](Len(mav_outputs) = Len(connected_GCS))
    /\ [][lastEvent'.raised = "transport" =>
            /\ IsSuccess(lastEvent', "query")
            /\ Last(chains'[lastEvent'.sd.chain].trace) = "connect_raise"
            /\ connected_GCS' = connected_GCS
            /\ mav_outputs' = mav_outputs
            /\ EventPair(lastEvent') \notin Range(connected_GCS')
            /\ printed' = <<>>]_vars
    /\ [][(/\ IsSuccess(lastEvent', "query")
           /\ Len(lastEvent'.rdata) = 4
           /\ EventPair(lastEvent') \notin Range(connected_GCS)) =>
            /\ Last(chains'[lastEvent'.sd.chain].trace) \in {"connect", "connect_raise"}
            /\ lastEvent'.raised \in {"none", "transport"}
            /\ lastEvent'.raised = "none" =>
                    /\ connected_GCS' = Append(connected_GCS, EventPair(lastEvent'))
                    /\ Len(mav_outputs') = Len(mav_outputs) + 1]_vars

\* The transport has just failed for a pair that a second chain is querying.
C18_Witness ==
    /\ lastEvent.raised = "transport"
    /\ Len(chains) = 2
    /\ lastEvent.sd.chain = 1
    /\ Last(chains[2].trace) = "query_start"
    /\ <<chains[2].hosttarget, chains[2].port>> = EventPair(lastEvent)
    /\ connected_GCS = <<>>
    /\ mav_outputs = <<>>

\* After a transport failure of the first chain the second chain connected.
C18_WitnessRetry ==
    /\ Len(chains) = 2
    /\ Last(chains[1].trace) = "connect_raise"
    /\ Last(chains[2].trace) = "connect"
    /\ lastEvent.sd.chain = 2
    /\ connected_GCS = <<EventPair(lastEvent)>>

\* C19: whatever the interleaving of the chains, the entry of a Resolve or
\* QueryAddress Query is removed or changed only by the callback of that
\* Query, and a Query that has not received its callback is registered.
C19_OnlyOwnCallbackRemoves ==
    /\ [](\A sd \in outstanding :
            /\ sd.fd \in DOMAIN select_extra
            /\ select_extra[sd.fd].sd = sd)
    /\ [][\A f \in DOMAIN select_extra :
            (/\ select_extra[f].sd.kind \in {"resolve", "query"}
             /\ \/ f \notin DOMAIN select_extra'
                \/ select_extra'[f] # select_extra[f]) =>
                /\ lastEvent'.cb = select_extra[f].sd.kind
                /\ lastEvent'.sd = select_extra[f].sd
                /\ lastEvent'.errorCode = 0
                /\ f \notin DOMAIN select_extra']_vars

\* The first chain's address query has removed its entry; the second chain
\* of the same name, started before, has had no callback and is registered.
C19_Witness ==
    /\ IsSuccess(lastEvent, "query")
    /\ lastEvent.sd.chain = 1
    /\ ChainEntries(1) = {}
    /\ Len(chains) = 2
    /\ chains[2].name = chains[1].name
    /\ chains[2].trace = <<"browse_add", "resolve_start">>
    /\ \E f \in ChainEntries(2) : select_extra[f].sd \in outstanding

\* C20: once the module is loaded the Browsing Query's entry is in the Event
\* Registration Table, mapped to the process-pending-event handler and the
\* Browsing Query, in every reachable state, and the Browsing Query is live.
C20_BrowseEntryStays ==
    module = "loaded" =>
        /\ browse_sdRef.kind = "browse"
        /\ browse_sdRef.fd \in DOMAIN select_extra
        /\ select_extra[browse_sdRef.fd] =
                [handler |-> "DNSServiceProcessResult", sd |-> browse_sdRef]
        /\ browse_sdRef \in outstanding
        /\ Cardinality({f \in DOMAIN select_extra : select_extra[f].sd.kind = "browse"}) = 1

\* A removal event has been delivered after one chain ended with an error
\* code and another with a connection.
C20_Witness ==
    /\ lastEvent.cb = "browse"
    /\ lastEvent.errorCode = 0
    /\ lastEvent.flags \in RemovalFlags
    /\ Len(chains) = 2
    /\ \E c \in DOMAIN chains : Last(chains[c].trace) \in {"resolve_err", "query_err"}
    /\ \E c \in DOMAIN chains : Last(chains[c].trace) = "connect"
    /\ select_extra[browse_sdRef.fd].sd = browse_sdRef

====
